---- MODULE Spec2Model ----
(***************************************************************************)
(* Model of the streamUtilities plugin (src/index.tsx): the preview        *)
(* update flow (updatePreview, setLocalPreview, postPreview), the          *)
(* single-slot retry timer (retryUpdate, resetRetry) and the               *)
(* RTC_CONNECTION_VIDEO handler.  The JavaScript event loop is             *)
(* single-threaded: each action is one macrotask together with the         *)
(* microtasks (promise continuations) it triggers.                         *)
(***************************************************************************)
EXTENDS Integers, Sequences, FiniteSets, TLC

\* ------------------------------------------------------------------ bounds
MaxUpdates == 2      \* updatePreview calls in one behaviour
MaxTimers == 3       \* setTimeout calls in one behaviour
MaxRetryAfter == 1   \* largest retry_after the server sends
DimUnit == 100       \* image widths and heights are multiples of this
MaxDimUnits == 12    \* largest width or height, in DimUnits

\* --------------------------------------------------------------- constants
NoTimer == 0         \* retryUpdate === undefined
NoStreamId == -1     \* streamId before its first assignment (undefined)
myId == 1            \* UserStore.getCurrentUser().id
TooManyRequests == 429
NoPayload == [streamKey |-> "", imageData |-> ""]   \* no update requested yet
StreamKeys == {"k1"}
Images == {"img1", "img2"}
Payloads == [streamKey : StreamKeys, imageData : Images]
RetryAfters == 1..MaxRetryAfter
\* What RestAPI.post can settle with: <<status, body.retry_after>>; only a 429
\* carries a retry_after.
Responses == {<<200, 0>>, <<500, 0>>} \cup {<<TooManyRequests, d>> : d \in RetryAfters}
Contexts == {"stream", "default"}
UserIds == {myId, 2}
StreamIds == {0, 7}
maxWidth == 512
maxHeight == 512
Dims == {k * DimUnit : k \in 1..MaxDimUnits}
NoThumb == [w |-> 0, h |-> 0, outW |-> 0, outH |-> 0, built |-> FALSE]

VARIABLES
    retryUpdate,      \* the retry slot: a timer handle or NoTimer
    streamId,         \* last recorded own stream id
    previewDisabled,  \* the "disableStreamPreviews" user setting
    building,         \* updatePreview calls awaiting createImageBitmap
    requests,         \* RestAPI.post calls awaiting their response
    timers,           \* pending timeouts (scheduled, not fired, not cancelled)
    nUpdates,         \* number of updatePreview calls so far
    nTimers,          \* number of setTimeout calls so far; the last handle
    latestPayload,    \* payload of the most recent updatePreview call
    lastOutcome,      \* how the postPreview or updatePreview that settled last ended
    anyFired,         \* whether a retry timer has fired yet
    uploads,          \* uploadPreview calls: choosing, decoding, cancelled
    thumb             \* an input image and the size of the thumbnail built

vars == <<retryUpdate, streamId, previewDisabled, building, requests, timers,
          nUpdates, nTimers, latestPayload, lastOutcome, anyFired, uploads,
          thumb>>

\* The state of the update flow.
flowVars == <<retryUpdate, streamId, previewDisabled, building, requests,
              timers, nUpdates, nTimers, latestPayload, lastOutcome, anyFired,
              uploads>>

\* Handles of the pending timeouts.
Pending == {t.id : t \in timers}

\* ----------------------------------------------------------------- helpers
\* clearTimeout(h): cancels h when it is pending, otherwise no effect.
clearTimeout(tm, h) ==
    {t \in tm : t.id # h}

\* resetRetry that forgets the handle without clearing its timeout.
resetRetry_noClear(slot, tm) ==
    <<NoTimer, tm>>

\* resetRetry that clears the timeout but keeps the handle in the slot.
resetRetry_keepSlot(slot, tm) ==
    IF slot = NoTimer THEN <<slot, tm>>
    ELSE <<slot, clearTimeout(tm, slot)>>

\* resetRetry(): the pair <<retryUpdate, timers>> after the call.
resetRetry(slot, tm) ==
    IF slot = NoTimer THEN <<slot, tm>>
    ELSE <<NoTimer, clearTimeout(tm, slot)>>

\* setTimeout(callback, retryAfter) returning handle h: the pending timeouts
\* with the new one; the callback closes over the payload of request r.
setTimeout(tm, h, r, d) ==
    tm \cup {[id |-> h, upd |-> r.upd, payload |-> r.payload, delay |-> d,
              age |-> 0, ended |-> r.ended, atEnd |-> FALSE]}

\* The catch block of postPreview for a 429: <<retryUpdate, timers>> after it.
scheduleRetry(slot, tm, h, r, d) ==
    LET c == resetRetry(slot, tm)
    IN  <<h, setTimeout(c[2], h, r, d)>>

\* A catch block that swallows every failure that is not a 429.
postPreviewCatch_swallow(status, slot, tm, h, r, d) ==
    IF status # TooManyRequests
    THEN [threw |-> FALSE, slot |-> slot, timers |-> tm]
    ELSE LET s == scheduleRetry(slot, tm, h, r, d)
         IN  [threw |-> FALSE, slot |-> s[1], timers |-> s[2]]

\* The catch block of postPreview: whether the error is rethrown, and the
\* slot and timers after it.
postPreviewCatch(status, slot, tm, h, r, d) ==
    IF status # TooManyRequests
    THEN [threw |-> TRUE, slot |-> slot, timers |-> tm]
    ELSE LET s == scheduleRetry(slot, tm, h, r, d)
         IN  [threw |-> FALSE, slot |-> s[1], timers |-> s[2]]

\* A retry callback that never clears the slot.
retryCallbackTail_keep(threw, slot) ==
    slot

\* The retry callback after its await of postPreview: the assignment is
\* skipped when postPreview rejected.
retryCallbackTail(threw, slot) ==
    IF threw THEN slot ELSE NoTimer

\* A timer that ignores its delay.
isDue_ignoreDelay(tmr) ==
    TRUE

\* A timer may fire once its delay has elapsed.
isDue(tmr) ==
    tmr.age >= tmr.delay

\* updatePreview with postPreview called before setLocalPreview.
publishEffects_postFirst(disabled) ==
    <<"post", "dispatch">> \o (IF disabled THEN <<>> ELSE <<"updateSetting">>)

\* The synchronous tail of updatePreview once the bitmap is built: the
\* effects in program order.
publishEffects(disabled) ==
    <<"dispatch", "post">> \o (IF disabled THEN <<>> ELSE <<"updateSetting">>)

\* A setting check that flips the setting instead of latching it.
settingAfterUpdate_toggle(disabled) ==
    ~disabled

\* The setting after updatePreview's check: written to true only when it
\* was not disabled yet.
settingAfterUpdate(disabled) ==
    IF disabled THEN disabled ELSE TRUE

FlowInit ==
    /\ retryUpdate = NoTimer
    /\ streamId = NoStreamId
    /\ previewDisabled \in BOOLEAN
    /\ building = {}
    /\ requests = {}
    /\ timers = {}
    /\ nUpdates = 0
    /\ nTimers = 0
    /\ latestPayload = NoPayload
    /\ lastOutcome = "none"
    /\ anyFired = FALSE
    /\ uploads = [choosing |-> 0, decoding |-> [p \in Payloads |-> 0], cancelled |-> 0]

Init ==
    /\ FlowInit
    /\ thumb = NoThumb

\* ----------------------------------------------------------------- actions
\* Number of uploadPreview calls that have not reached updatePreview: those
\* under way and those that ended at a cancelled selection.
RECURSIVE sumOver(_, _)
sumOver(f, S) ==
    IF S = {} THEN 0
    ELSE LET x == CHOOSE y \in S : TRUE IN f[x] + sumOver(f, S \ {x})

uploadsUnderWay ==
    uploads.choosing + uploads.cancelled + sumOver(uploads.decoding, Payloads)

\* uploadPreview(stream) up to its await of chooseFile.
UploadPreview ==
    /\ nUpdates + uploadsUnderWay < MaxUpdates
    /\ uploads' = [uploads EXCEPT !.choosing = @ + 1]
    /\ UNCHANGED <<retryUpdate, streamId, previewDisabled, building, requests,
                   timers, nUpdates, nTimers, latestPayload, lastOutcome,
                   anyFired>>

\* An uploadPreview that goes on without a file.
ChooseNothing_noGuard ==
    /\ uploads.choosing > 0
    /\ uploads' = [uploads EXCEPT !.choosing = @ - 1, !.cancelled = @ + 1]
    /\ nUpdates' = nUpdates + 1
    /\ building' = building \cup {[upd |-> nUpdates + 1, payload |-> NoPayload,
                                   ended |-> FALSE]}
    /\ latestPayload' = NoPayload
    /\ UNCHANGED <<retryUpdate, streamId, previewDisabled, requests, timers,
                   nTimers, lastOutcome, anyFired>>

\* chooseFile resolves with nothing (the selection was cancelled):
\* uploadPreview returns.
ChooseNothing ==
    /\ uploads.choosing > 0
    /\ uploads' = [uploads EXCEPT !.choosing = @ - 1, !.cancelled = @ + 1]
    /\ UNCHANGED <<retryUpdate, streamId, previewDisabled, building, requests,
                   timers, nUpdates, nTimers, latestPayload, lastOutcome,
                   anyFired>>

\* chooseFile resolves with a file: the stream key is taken and uploadPreview
\* awaits createImageBitmap(file); p is the payload the file will yield.
ChooseFile(p) ==
    /\ uploads.choosing > 0
    /\ uploads' = [uploads EXCEPT !.choosing = @ - 1, !.decoding[p] = @ + 1]
    /\ UNCHANGED <<retryUpdate, streamId, previewDisabled, building, requests,
                   timers, nUpdates, nTimers, latestPayload, lastOutcome,
                   anyFired>>

\* createImageBitmap(file) rejects: uploadPreview ends there.
DecodeFail(p) ==
    /\ uploads.decoding[p] > 0
    /\ uploads' = [uploads EXCEPT !.decoding[p] = @ - 1]
    /\ UNCHANGED <<retryUpdate, streamId, previewDisabled, building, requests,
                   timers, nUpdates, nTimers, latestPayload, lastOutcome,
                   anyFired>>

\* createImageBitmap(file) resolves: uploadPreview calls updatePreview, which
\* runs up to its own await of createImageBitmap.
DecodeDone(p) ==
    /\ uploads.decoding[p] > 0
    /\ uploads' = [uploads EXCEPT !.decoding[p] = @ - 1]
    /\ nUpdates' = nUpdates + 1
    /\ building' = building \cup {[upd |-> nUpdates + 1, payload |-> p,
                                   ended |-> FALSE]}
    /\ latestPayload' = p
    /\ UNCHANGED <<retryUpdate, streamId, previewDisabled, requests, timers,
                   nTimers, lastOutcome, anyFired>>

\* updatePreview(streamKey, data), called by uploadScreenPreview or another
\* caller, up to its await of createImageBitmap.
UpdateStart(p) ==
    /\ nUpdates + uploadsUnderWay < MaxUpdates
    /\ nUpdates' = nUpdates + 1
    /\ building' = building \cup {[upd |-> nUpdates + 1, payload |-> p,
                                   ended |-> FALSE]}
    /\ latestPayload' = p
    /\ UNCHANGED <<retryUpdate, streamId, previewDisabled, requests, timers,
                   nTimers, lastOutcome, anyFired, uploads>>

\* An updatePreview that publishes and submits although the build failed.
BuildFail_submitsAnyway(b) ==
    /\ b \in building
    /\ building' = building \ {b}
    /\ requests' = requests \cup
                     {[upd |-> b.upd, payload |-> b.payload, via |-> NoTimer,
                       ended |-> b.ended,
                       effects |-> <<"dispatch", "post">>]}
    /\ lastOutcome' = "buildRejected"
    /\ UNCHANGED <<retryUpdate, streamId, previewDisabled, timers, nUpdates,
                   nTimers, latestPayload, anyFired, uploads>>

\* createImageBitmap (or the canvas rendering) throws: updatePreview rejects
\* there, before setLocalPreview and postPreview.
BuildFail(b) ==
    /\ b \in building
    /\ building' = building \ {b}
    /\ lastOutcome' = "buildRejected"
    /\ UNCHANGED <<retryUpdate, streamId, previewDisabled, requests, timers,
                   nUpdates, nTimers, latestPayload, anyFired, uploads>>

\* createImageBitmap resolves: canvas, setLocalPreview, postPreview up to its
\* await of RestAPI.post, then the setting check.
BuildDone(b) ==
    /\ b \in building
    /\ building' = building \ {b}
    /\ requests' = requests \cup
                     {[upd |-> b.upd, payload |-> b.payload, via |-> NoTimer,
                       ended |-> b.ended,
                       effects |-> publishEffects(previewDisabled)]}
    /\ previewDisabled' = settingAfterUpdate(previewDisabled)
    /\ UNCHANGED <<retryUpdate, streamId, timers, nUpdates, nTimers,
                   latestPayload, lastOutcome, anyFired, uploads>>

\* The response to a RestAPI.post arrives: postPreview resumes; when the
\* post was issued by a retry callback (r.via is its timer), the callback
\* resumes in the same turn once postPreview has settled.
Respond(r, status, d) ==
    /\ r \in requests
    /\ requests' = requests \ {r}
    /\ IF status = 200 THEN
            /\ retryUpdate' = IF r.via = NoTimer THEN retryUpdate
                              ELSE retryCallbackTail(FALSE, retryUpdate)
            /\ lastOutcome' = "accepted"
            /\ UNCHANGED <<timers, nTimers>>
       ELSE
            /\ status = TooManyRequests => nTimers < MaxTimers
            /\ LET c == postPreviewCatch(status, retryUpdate, timers,
                                         nTimers + 1, r, d)
               IN  /\ timers' = c.timers
                   /\ retryUpdate' = IF r.via = NoTimer THEN c.slot
                                     ELSE retryCallbackTail(c.threw, c.slot)
                   /\ lastOutcome' = IF c.threw THEN "rejected" ELSE "fulfilled"
            /\ nTimers' = IF status = TooManyRequests THEN nTimers + 1 ELSE nTimers
    /\ UNCHANGED <<streamId, previewDisabled, building, nUpdates,
                   latestPayload, anyFired, uploads>>

\* Time passes: every pending timer that is not yet due gets one unit older.
Tick ==
    /\ \E t \in timers : t.age < t.delay
    /\ timers' = {IF t.age < t.delay THEN [t EXCEPT !.age = @ + 1] ELSE t :
                    t \in timers}
    /\ UNCHANGED <<retryUpdate, streamId, previewDisabled, building, requests,
                   nUpdates, nTimers, latestPayload, lastOutcome, anyFired, uploads>>

\* A due timer fires: its callback calls postPreview, which issues the post
\* and suspends; the callback suspends on it.
TimerFire(t) ==
    /\ t \in timers
    /\ isDue(t)
    /\ timers' = timers \ {t}
    /\ requests' = requests \cup
                     {[upd |-> t.upd, payload |-> t.payload, via |-> t.id,
                       ended |-> t.ended, effects |-> <<>>]}
    /\ anyFired' = TRUE
    /\ UNCHANGED <<retryUpdate, streamId, previewDisabled, building, nUpdates,
                   nTimers, latestPayload, lastOutcome, uploads>>

\* A handler that does not check whose event it is.
RtcConnectionVideo_anyUser(context, userId, sid) ==
    IF context # "stream" THEN
        UNCHANGED vars
    ELSE
        /\ streamId' = sid
        /\ IF sid # 0 THEN
                UNCHANGED <<retryUpdate, timers, building, requests>>
           ELSE
                LET c == resetRetry(retryUpdate, timers)
                IN  /\ retryUpdate' = c[1]
                    /\ timers' = {[t EXCEPT !.ended = TRUE, !.atEnd = TRUE] :
                                    t \in c[2]}
                    /\ building' = {[b EXCEPT !.ended = TRUE] : b \in building}
                    /\ requests' = {[r EXCEPT !.ended = TRUE] : r \in requests}
        /\ UNCHANGED <<previewDisabled, nUpdates, nTimers, latestPayload,
                       lastOutcome, anyFired, uploads>>

\* flux.RTC_CONNECTION_VIDEO.  A cleared stream id ends the session: what is
\* under way then is marked as belonging to the ended session.
RtcConnectionVideo(context, userId, sid) ==
    IF context # "stream" \/ userId # myId THEN
        UNCHANGED vars
    ELSE
        /\ streamId' = sid
        /\ IF sid # 0 THEN
                UNCHANGED <<retryUpdate, timers, building, requests>>
           ELSE
                LET c == resetRetry(retryUpdate, timers)
                IN  /\ retryUpdate' = c[1]
                    /\ timers' = {[t EXCEPT !.ended = TRUE, !.atEnd = TRUE] :
                                    t \in c[2]}
                    /\ building' = {[b EXCEPT !.ended = TRUE] : b \in building}
                    /\ requests' = {[r EXCEPT !.ended = TRUE] : r \in requests}
        /\ UNCHANGED <<previewDisabled, nUpdates, nTimers, latestPayload,
                       lastOutcome, anyFired, uploads>>

Next ==
    \/ UploadPreview /\ UNCHANGED thumb
    \/ ChooseNothing /\ UNCHANGED thumb
    \/ \E p \in Payloads : ChooseFile(p) /\ UNCHANGED thumb
    \/ \E p \in Payloads : DecodeFail(p) /\ UNCHANGED thumb
    \/ \E p \in Payloads : DecodeDone(p) /\ UNCHANGED thumb
    \/ \E p \in Payloads : UpdateStart(p) /\ UNCHANGED thumb
    \/ \E b \in building : BuildFail(b) /\ UNCHANGED thumb
    \/ \E b \in building : BuildDone(b) /\ UNCHANGED thumb
    \/ \E r \in requests, a \in Responses :
           Respond(r, a[1], a[2]) /\ UNCHANGED thumb
    \/ Tick /\ UNCHANGED thumb
    \/ \E t \in timers : TimerFire(t) /\ UNCHANGED thumb
    \/ \E c \in Contexts, uid \in UserIds, sid \in StreamIds :
           RtcConnectionVideo(c, uid, sid) /\ UNCHANGED thumb

Spec == Init /\ [][Next]_vars

\* ------------------------------------------------------- a single update
\* The responses of a server that answers with success or 429 only.
LiveResponses == {a \in Responses : a[1] \in {200, TooManyRequests}}

\* A response of such a server arrives.
LiveRespond == \E r \in requests, a \in LiveResponses : Respond(r, a[1], a[2])

\* A due timer fires.
LiveFire == \E t \in timers : TimerFire(t)

\* One update, requested through uploadPreview or by a direct call of
\* updatePreview; no later update, and no session-end event once the update
\* has been requested.
LiveNext ==
    \/ nUpdates + uploadsUnderWay = 0 /\ UploadPreview /\ UNCHANGED thumb
    \/ ChooseNothing /\ UNCHANGED thumb
    \/ \E p \in Payloads : ChooseFile(p) /\ UNCHANGED thumb
    \/ \E p \in Payloads : DecodeFail(p) /\ UNCHANGED thumb
    \/ \E p \in Payloads : DecodeDone(p) /\ UNCHANGED thumb
    \/ \E p \in Payloads :
           nUpdates + uploadsUnderWay = 0 /\ UpdateStart(p) /\ UNCHANGED thumb
    \/ \E b \in building : BuildFail(b) /\ UNCHANGED thumb
    \/ \E b \in building : BuildDone(b) /\ UNCHANGED thumb
    \/ LiveRespond /\ UNCHANGED thumb
    \/ Tick /\ UNCHANGED thumb
    \/ LiveFire /\ UNCHANGED thumb
    \/ \E c \in Contexts, uid \in UserIds, sid \in StreamIds :
           /\ c # "stream" \/ uid # myId \/ sid # 0
                \/ nUpdates + uploadsUnderWay = 0
           /\ RtcConnectionVideo(c, uid, sid)
           /\ UNCHANGED thumb

\* Every submit is answered, time passes and every due timer fires; the
\* bound on setTimeout calls makes the 429 answers finitely many.
LiveSpec ==
    /\ Init
    /\ [][LiveNext]_vars
    /\ WF_vars(LiveRespond /\ UNCHANGED thumb)
    /\ WF_vars(Tick /\ UNCHANGED thumb)
    /\ WF_vars(LiveFire /\ UNCHANGED thumb)

\* ------------------------------------------------------ thumbnail builder
\* The sizes createImageBitmap may give a dimension that is derived
\* proportionally (other * target / base): the quotient rounded down or up,
\* at least 1.
proportional(other, target, base) ==
    LET lo == (other * target) \div base
        hi == IF (other * target) % base = 0 THEN lo ELSE lo + 1
    IN  {IF lo < 1 THEN 1 ELSE lo, hi}

\* The sizes <<width, height>> of the bitmap updatePreview draws for an input
\* of width w and height h.
resizedSizes(w, h) ==
    LET isWidthLarge == w > maxWidth
    IN  IF isWidthLarge
        THEN {<<maxWidth, oh>> : oh \in proportional(h, maxWidth, w)}
        ELSE {<<ow, maxHeight>> : ow \in proportional(w, maxHeight, h)}

ThumbInit ==
    /\ FlowInit
    /\ \E w \in Dims, h \in Dims :
           thumb = [w |-> w, h |-> h, outW |-> 0, outH |-> 0, built |-> FALSE]

\* updatePreview builds the thumbnail of the input image.
BuildThumbnail ==
    /\ ~thumb.built
    /\ \E size \in resizedSizes(thumb.w, thumb.h) :
           thumb' = [thumb EXCEPT !.outW = size[1], !.outH = size[2],
                                  !.built = TRUE]
    /\ UNCHANGED flowVars

ThumbNext == BuildThumbnail

ThumbSpec == ThumbInit /\ [][ThumbNext]_vars

\* ------------------------------------------------------------------ claims
\* Position of the first occurrence of x in the sequence e, 0 when absent.
firstIndex(e, x) ==
    IF \E i \in DOMAIN e : e[i] = x
    THEN CHOOSE i \in DOMAIN e : e[i] = x /\ \A j \in 1..(i - 1) : e[j] # x
    ELSE 0

\* The retry submits issued by the step: those awaiting a response after it
\* whose timer had not fired before it.
NewRetrySubmits == {r \in requests' : r.via # NoTimer /\ r.via \in Pending}

\* The timers scheduled by the step.
NewTimers == {t \in timers' : t.id > nTimers}

\* C1: in every reachable state at most one retry timer is pending.
AtMostOnePendingRetry ==
    Cardinality(timers) <= 1

\* C2: a retry timer that is pending when an own-stream event with a cleared
\* stream id arrives never fires afterwards.
SessionEndCancelsPendingRetry ==
    [][\A r \in NewRetrySubmits :
           \A t \in timers : t.id = r.via => ~t.atEnd]_vars

\* C3: after a session-end event no retry timer is scheduled and no retry
\* submit is issued for an update that was started before the event.
NoRetryForEndedSession ==
    [][/\ \A t \in NewTimers : ~t.ended
       /\ \A r \in NewRetrySubmits : ~r.ended]_vars

\* C4: the payload of every pending retry timer, and of every retry submit
\* awaiting its response, is that of the most recently requested update.
RetryIsPayloadSticky ==
    /\ \A t \in timers : t.payload = latestPayload
    /\ \A r \in requests : r.via # NoTimer => r.payload = latestPayload

\* C5: handling a 429 raises no error, cancels every timer pending at that
\* moment and schedules exactly one new timer with the payload of the
\* rejected submit, whose firing re-issues the submit with that payload; a
\* successful resubmission schedules no timer and leaves the slot empty.
RetryOn429 ==
    [][/\ \A r \in requests, d \in RetryAfters :
              Respond(r, TooManyRequests, d) =>
                  /\ lastOutcome' = "fulfilled"
                  /\ Pending \cap Pending' = {}
                  /\ Cardinality(NewTimers) = 1
                  /\ \A t \in NewTimers : t.payload = r.payload
       /\ \A t \in timers :
              TimerFire(t) =>
                  \E r \in NewRetrySubmits :
                      r.via = t.id /\ r.payload = t.payload
       /\ \A r \in requests :
              (r.via # NoTimer /\ Respond(r, 200, 0)) =>
                  NewTimers = {} /\ retryUpdate' = NoTimer]_vars

\* C6: a failure with a status other than 429 is rethrown by postPreview and
\* nothing is retried: the timers and the retry slot are as before.
OtherFailurePropagates ==
    [][\A r \in requests :
           Respond(r, 500, 0) =>
               /\ lastOutcome' = "rejected"
               /\ timers' = timers
               /\ retryUpdate' = retryUpdate]_vars

\* C6 witness: a submit has just failed with another status while a retry
\* timer was pending and referenced by the slot.
OtherFailureSeen ==
    /\ lastOutcome = "rejected"
    /\ retryUpdate \in Pending

\* C7: a retry submit is issued only by a pending timer whose age has
\* reached the retry_after it was scheduled with, carries that timer's
\* payload, and consumes the timer, so it is issued once per 429.
RetryAfterDelayExactlyOnce ==
    [][\A r \in NewRetrySubmits :
           \E t \in timers :
               /\ t.id = r.via
               /\ t.payload = r.payload
               /\ t.age >= t.delay
               /\ t.delay \in RetryAfters
               /\ t.id \notin Pending'
               /\ Cardinality({q \in requests' : q.via = t.id}) = 1]_vars

\* C7 witness: the resubmission issued by a fired timer awaits its response.
RetryIssuedAfterDelay ==
    \E r \in requests : r.via # NoTimer

\* C8: as long as no timer has fired, only the timer scheduled by the last
\* 429 handled can be pending: every earlier one has been cancelled, so only
\* the last one of the burst can ever fire.
RapidFire429OnlyLastFires ==
    ~anyFired => \A t \in timers : t.id = nTimers

\* C8 witness: several 429 responses (all for the one stream key) were
\* handled before any timer fired, and the last timer is due.
RapidFireSeen ==
    /\ ~anyFired
    /\ nTimers >= 2
    /\ \E t \in timers : isDue(t)

\* C9: in every update that got past thumbnail building the local publish
\* precedes the remote submit, and so precedes the submit's result.
LocalPublishBeforeRemote ==
    \A r \in requests :
        r.via = NoTimer =>
            /\ firstIndex(r.effects, "dispatch") > 0
            /\ firstIndex(r.effects, "post") > 0
            /\ firstIndex(r.effects, "dispatch") < firstIndex(r.effects, "post")

\* C9 witness: an update has published locally and its submit awaits the
\* response.
RemoteSubmitAwaited ==
    \E r \in requests : r.via = NoTimer /\ r.payload = latestPayload

\* C10: the setting is written only after the update's remote submit has
\* succeeded, so an update whose submit has not returned yet has not written
\* the setting.
SettingFlippedAfterSuccess ==
    \A r \in requests :
        r.via = NoTimer => firstIndex(r.effects, "updateSetting") = 0

\* The direct submits issued by the step (by updatePreview).
NewDirectSubmits ==
    {r \in requests' : r.via = NoTimer /\ r.upd \notin {q.upd : q \in requests}}

\* C11: no step of the update flow, of a retry callback or of the
\* RTC_CONNECTION_VIDEO handler turns the setting from disabled to enabled,
\* and an updatePreview that finds it disabled does not write it.
SettingIsOneWayLatch ==
    [][previewDisabled =>
           /\ previewDisabled'
           /\ \A r \in NewDirectSubmits :
                  firstIndex(r.effects, "updateSetting") = 0]_vars

\* C11 witness: an update ran with the setting already disabled and did not
\* write it; its submit awaits the response.
UpdateWhileDisabledSeen ==
    /\ previewDisabled
    /\ \E r \in requests : r.via = NoTimer /\ r.effects = <<"dispatch", "post">>

\* C12: when the file chooser returns nothing, uploadPreview ends without
\* attempting an update: nothing is decoded, built, published or submitted,
\* and the setting, the retry slot and the pending timers are as before.
ChooserCancelAborts ==
    [][uploads'.cancelled > uploads.cancelled =>
           /\ uploads'.decoding = uploads.decoding
           /\ UNCHANGED <<retryUpdate, streamId, previewDisabled, building,
                          requests, timers, nUpdates, nTimers, latestPayload,
                          lastOutcome, anyFired>>]_vars

\* C12 witness: a selection was cancelled while a retry timer was pending.
ChooserCancelSeen ==
    /\ uploads.cancelled > 0
    /\ retryUpdate \in Pending

\* C13: when thumbnail building fails, updatePreview ends with an error and
\* performs neither the local publish nor the remote submit; the setting,
\* the retry slot and the pending timers are as before.
BuildFailureAborts ==
    [][\A b \in building :
           BuildFail(b) =>
               /\ lastOutcome' = "buildRejected"
               /\ requests' = requests
               /\ previewDisabled' = previewDisabled
               /\ retryUpdate' = retryUpdate
               /\ timers' = timers]_vars

\* C13 witness: a build has just failed while a retry timer was pending and
\* referenced by the slot.
BuildFailureSeen ==
    /\ lastOutcome = "buildRejected"
    /\ retryUpdate \in Pending

\* C14: for an input with max(w, h) > 512 the thumbnail built has neither
\* dimension above 512.
ThumbnailWithinBounds ==
    (thumb.built /\ (thumb.w > 512 \/ thumb.h > 512)) =>
        thumb.outW <= 512 /\ thumb.outH <= 512

\* C15: the RTC_CONNECTION_VIDEO handler changes neither the recorded stream
\* id nor the retry slot nor the pending timers for an event of another
\* context or another user; for an own-stream event with a nonzero id it
\* records the id and cancels nothing; for an own-stream event with a
\* cleared id it records the id, empties the slot and cancels the timer the
\* slot referenced.
RtcHandlerFrame ==
    [][\A c \in Contexts, u \in UserIds, sid \in StreamIds :
           RtcConnectionVideo(c, u, sid) =>
               IF c # "stream" \/ u # myId
               THEN /\ streamId' = streamId
                    /\ retryUpdate' = retryUpdate
                    /\ Pending' = Pending
               ELSE IF sid # 0
               THEN /\ streamId' = sid
                    /\ retryUpdate' = retryUpdate
                    /\ Pending' = Pending
               ELSE /\ streamId' = sid
                    /\ retryUpdate' = NoTimer
                    /\ Pending' = Pending \ {retryUpdate}]_vars

\* C15 witness: an own-stream event with a nonzero id has been recorded and
\* the pending retry the slot references is still there.
ActiveStreamRecordedSeen ==
    /\ streamId \in StreamIds \ {0}
    /\ retryUpdate \in Pending

\* C16: resetRetry with an empty slot changes nothing, and a second
\* resetRetry leaves what the first one left: an empty slot and no pending
\* timer with the handle the slot held.
ResetRetryIdempotent ==
    LET once == resetRetry(retryUpdate, timers)
        twice == resetRetry(once[1], once[2])
    IN  /\ retryUpdate = NoTimer => once = <<retryUpdate, timers>>
        /\ twice = once
        /\ once[1] = NoTimer
        /\ retryUpdate \notin {t.id : t \in once[2]}
        /\ once[2] \subseteq timers

\* C16 witness: the slot references a pending timer while another timer is
\* pending too, so resetRetry has something to cancel and something to keep.
ResetRetryHasWork ==
    /\ retryUpdate \in Pending
    /\ Pending # {retryUpdate}

\* C17: every pending retry timer is the one the retry slot references.
NoOrphanTimers ==
    \A t \in timers : t.id = retryUpdate

\* C18: whenever no retry timer is pending and no retry callback awaits its
\* resubmission, the retry slot is empty.
NoStaleHandle ==
    (timers = {} /\ \A r \in requests : r.via = NoTimer) =>
        retryUpdate = NoTimer

\* C19: for a single update whose submit has been issued, with every submit
\* answered by success or finitely many 429s and every timer firing, the
\* server eventually accepts the thumbnail, and from then on no timer is
\* pending, no submit is in flight and the retry slot is empty.
SingleUpdateEventuallyAccepted ==
    (requests # {}) ~>
        [](/\ lastOutcome = "accepted"
           /\ timers = {}
           /\ requests = {}
           /\ retryUpdate = NoTimer)

\* C19 witness: the thumbnail was accepted after two 429 answers and two
\* timer firings; nothing is pending and the slot is empty.
AcceptedAfterRetries ==
    /\ lastOutcome = "accepted"
    /\ anyFired
    /\ nTimers >= 2
    /\ timers = {}
    /\ requests = {}
    /\ retryUpdate = NoTimer

TypeOK ==
    /\ retryUpdate \in 0..MaxTimers
    /\ streamId \in {NoStreamId} \cup StreamIds
    /\ previewDisabled \in BOOLEAN
    /\ nUpdates \in 0..MaxUpdates
    /\ nTimers \in 0..MaxTimers
    /\ Pending \subseteq 1..nTimers
    /\ Cardinality(Pending) = Cardinality(timers)
    /\ lastOutcome \in {"none", "accepted", "fulfilled", "rejected", "buildRejected"}
    /\ uploads.choosing \in 0..MaxUpdates
    /\ nUpdates + uploadsUnderWay <= MaxUpdates
====
